---- MODULE Spec2Model ----
(***************************************************************************)
(* Platform API (apps/platformapi/main.py): the action registry, the       *)
(* execution engine execute_action, the bounded run ledger RUNS, the       *)
(* Prometheus action metrics and the interval scheduler with its           *)
(* max_instances=1 guard.                                                  *)
(*                                                                         *)
(* Threads.  The HTTP handlers are `async def` functions without an await  *)
(* in their bodies, so each runs to completion on the event loop: while    *)
(* api_run_action is blocked in subprocess.run no other handler runs.      *)
(* Scheduled runs execute on the scheduler's worker threads and interleave *)
(* with the event loop and with each other.  An execution has one          *)
(* suspension point, the wait for the external process; the statements     *)
(* after it (lines 235-262) are taken as one step.                         *)
(*                                                                         *)
(* Wall-clock values (started_at, duration_s, next_run_time) are not       *)
(* modelled; a tick of a job may fire at any moment the job is in the job  *)
(* table, which covers executions both shorter and longer than the         *)
(* interval.                                                               *)
(***************************************************************************)
EXTENDS Integers, Sequences, FiniteSets, TLC

\* ---------------------------------------------------------------- bounds
\* uuid4 run ids are modelled as a fresh counter; at most MaxRuns
\* executions are started in the main specification.
MaxRuns == 2
\* executions started in the job-table specification SpecJobs.
MaxRunsJobs == 1
\* executions started in the ledger specification SpecLedger (more than MAXLEN).
MaxRunsLedger == 55
\* lines in a recap block of the parser specification
MaxLines == 3

\* ------------------------------------------------------ program constants
\* RUNS = deque(maxlen=50)
MAXLEN == 50
\* max_instances=1 of every job added by this program
MAX_INSTANCES == 1
\* IntervalTrigger(minutes=10) of the default job
DEFAULT_MINUTES == 10

\* The ACTIONS dict: action id -> execution parameters (label and description
\* have no effect and are left out).  ACTIONS is a reserved word of TLA+.
ACTIONS_DICT ==
    [ ec2_ping       |-> [playbook |-> "ansible/ping.yml", limit |-> "platformapi"],
      httpd_restart  |-> [playbook |-> "ansible/httpdrestart.yml", limit |-> "platformapi"],
      zos_ping       |-> [playbook |-> "ansible/mainframe/mainframe_ping.yaml", limit |-> "mainframe"],
      zos_cpu_jobs   |-> [playbook |-> "ansible/mainframe/cpujobs.yaml", limit |-> "zos"],
      zos_submit_jcl |-> [playbook |-> "ansible/mainframe/submit_jcl.yaml", limit |-> "zos"] ]

ActionIds == DOMAIN ACTIONS_DICT

\* ----------------------------------------------------------------- inputs
\* action ids that requests carry: a registered one and an unknown one ...
RequestIds == {"zos_ping", "no_such_action"}
\* ... and a second registered one in the job-table specification
ScheduleIds == {"zos_ping", "ec2_ping", "no_such_action"}
\* the `minutes` query parameter of POST /api/schedule/{action}
Minutes == {5, 10}
\* `minutes: int` admits every integer: a negative one and zero beside them
AnyMinutes == {-5, 0, 5, 10}

Statuses == {"success", "failed"}

VARIABLES
    phase,                \* "created" | "running" | "shutdown"
    RUNS,                 \* the run ledger, most recent first
    ACTION_RUNS_TOTAL,    \* counter, labels (action, status)
    ACTION_RUN_DURATION,  \* histogram: number of observations per action
    IN_PROGRESS_RUNS,     \* gauge
    ZOS_UP,               \* gauge
    jobs,                 \* the scheduler's job table
    instances,            \* the executor's running-instance count per job id
    inflight,             \* executions waiting for the external process
    nextId,               \* number of run ids handed out so far
    last,                 \* what the last operation returned or raised
    idleTicks,            \* history: ticks per action that found the job idle
    schedStarted,         \* history: executions per action started by ticks
    snapshot,             \* the list the latest GET /api/runs returned
    appended,             \* history: number of records ever appended to RUNS
    firstId,              \* history: run id of the first record appended (0: none)
    tickIds,              \* history: run ids of the executions started by ticks
    appendedBy            \* history: records ever appended to RUNS, per action

vars == << phase, RUNS, ACTION_RUNS_TOTAL, ACTION_RUN_DURATION, IN_PROGRESS_RUNS,
           ZOS_UP, jobs, instances, inflight, nextId, last, snapshot,
           idleTicks, schedStarted, appended, firstId, tickIds, appendedBy >>

metrics == << ACTION_RUNS_TOTAL, ACTION_RUN_DURATION, IN_PROGRESS_RUNS, ZOS_UP >>
history == << idleTicks, schedStarted, appended, firstId, tickIds, appendedBy >>

\* job_id = f"{action}_interval"
job_id(action) == << action, "_interval" >>

\* ------------------------------------------------------------ Output Parser
\* A text is a sequence of one-character strings; the literal "PLAY RECAP "
\* of the header is carried as one element.
MARKER == "PLAY RECAP "
Digits == {"0", "1", "2"}
\* the characters \w of the regular expression matches
WordChars == Digits \cup {"a", "b", "h", "k", "o", "_"}
\* the characters str.strip() removes
IsSpace(c) == c \in {" ", "\n"}

EmptyDict == [x \in {} |-> 0]

\* d[k] = v of a Python dict
DictSet(d, k, v) == [x \in DOMAIN d \cup {k} |-> IF x = k THEN v ELSE d[x]]

Drop(s, n) == SubSeq(s, n + 1, Len(s))

\* str.strip()
RECURSIVE LStrip(_)
LStrip(s) == IF s # <<>> /\ IsSpace(Head(s)) THEN LStrip(Tail(s)) ELSE s
RECURSIVE RStrip(_)
RStrip(s) ==
    IF s # <<>> /\ IsSpace(s[Len(s)]) THEN RStrip(SubSeq(s, 1, Len(s) - 1)) ELSE s
Strip(s) == RStrip(LStrip(s))

\* least i in from..Len(s) with s[i] = c, or 0
RECURSIVE IndexOf(_, _, _)
IndexOf(s, c, from) ==
    IF from > Len(s) THEN 0
    ELSE IF s[from] = c THEN from ELSE IndexOf(s, c, from + 1)

\* str.splitlines(): the pieces between line breaks, no piece for a final break
RECURSIVE SplitLines(_)
SplitLines(s) ==
    IF s = <<>> THEN <<>>
    ELSE LET i == IndexOf(s, "\n", 1)
         IN  IF i = 0 THEN << s >>
             ELSE << SubSeq(s, 1, i - 1) >> \o SplitLines(Drop(s, i))

\* length of the longest prefix of s, from position i, made of characters in P
RECURSIVE RunLen(_, _, _)
RunLen(s, i, P) ==
    IF i <= Len(s) /\ s[i] \in P THEN 1 + RunLen(s, i + 1, P) ELSE 0

\* int() of a string of decimal digits
DigitVal(c) == CASE c = "0" -> 0 [] c = "1" -> 1 [] c = "2" -> 2
RECURSIVE ToInt(_)
ToInt(ds) ==
    IF ds = <<>> THEN 0
    ELSE 10 * ToInt(SubSeq(ds, 1, Len(ds) - 1)) + DigitVal(ds[Len(ds)])

\* {kv.group(1): int(kv.group(2)) for kv in re.finditer(r"(\w+)=([0-9]+)", s)},
\* scanning from position i with the entries found so far in acc
RECURSIVE FindStats(_, _, _)
FindStats(s, i, acc) ==
    IF i > Len(s) THEN acc
    ELSE LET w == RunLen(s, i, WordChars)
             e == i + w
             d == IF w > 0 /\ e <= Len(s) /\ s[e] = "=" THEN RunLen(s, e + 1, Digits) ELSE 0
         IN  IF d > 0
             THEN FindStats(s, e + 1 + d,
                            DictSet(acc, SubSeq(s, i, e - 1), ToInt(SubSeq(s, e + 1, e + d))))
             ELSE FindStats(s, i + 1, acc)

\* re.search(r"PLAY RECAP \*+\n", ...): the position after the first header
\* whose asterisks run up to the end of its line, or 0
RECURSIVE HeaderEnd(_, _)
HeaderEnd(s, from) ==
    LET i == IndexOf(s, MARKER, from)
        n == RunLen(s, i + 1, {"*"})
    IN  IF i = 0 THEN 0
        ELSE IF n > 0 /\ i + n + 1 <= Len(s) /\ s[i + n + 1] = "\n" THEN i + n + 2
        ELSE HeaderEnd(s, i + 1)

\* (.*?)(?:\n\n|\Z): the text from position p up to the first blank line or
\* the end of the input
RECURSIVE BlockEnd(_, _)
BlockEnd(s, q) ==
    IF q > Len(s) THEN Len(s)
    ELSE IF s[q] = "\n" /\ q + 1 <= Len(s) /\ s[q + 1] = "\n" THEN q - 1
    ELSE BlockEnd(s, q + 1)

\* the for loop of parse_play_recap over the lines of the block
RECURSIVE RecapLines(_, _)
RecapLines(lines, summary) ==
    IF lines = <<>> THEN summary
    ELSE LET line == Head(lines)
             c == IndexOf(line, ":", 1)
         IN  IF c = 0 THEN RecapLines(Tail(lines), summary)
             ELSE RecapLines(Tail(lines),
                             DictSet(summary, Strip(SubSeq(line, 1, c - 1)),
                                     FindStats(Drop(line, c), 1, EmptyDict)))

parse_play_recap(output) ==
    IF output = <<>> THEN EmptyDict
    ELSE LET p == HeaderEnd(output, 1)
         IN  IF p = 0 THEN EmptyDict
             ELSE RecapLines(SplitLines(Strip(SubSeq(output, p, BlockEnd(output, p)))),
                             EmptyDict)

\* captured standard outputs of the external process: nothing, and a recap
\* block with one target line
NoOutput == << >>
RecapOutput ==
    << MARKER, "*", "*", "\n", "h", " ", ":", " ", "o", "k", "=", "2", "\n", "\n" >>

\* lines a recap block may hold: two target lines, a line without a colon, and
\* two lines with a colon and no key=integer pair after it
RecapLineKinds ==
    { << "h", " ", ":", " ", "o", "k", "=", "1" >>,
      << "b", ":", " ", "o", "k", "=", "2", " ", "k", "o", "=", "0" >>,
      << "o", "k" >>,
      << "k", ":", " ", "a" >>,
      << "h", ":", " ", "a" >> }

\* "\n".join(lines) + "\n"
RECURSIVE JoinLines(_)
JoinLines(lines) ==
    IF lines = << >> THEN << >> ELSE Head(lines) \o << "\n" >> \o JoinLines(Tail(lines))

\* standard outputs that end with a recap block of up to MaxLines lines
RecapTexts ==
    { << "o", "k", "\n", MARKER, "*", "*", "\n" >> \o JoinLines(ls) :
        ls \in UNION { [1..n -> RecapLineKinds] : n \in 0..MaxLines } }

\* how a process that ran to completion ended: << exit code, stdout >>
Exits == { << 0, RecapOutput >>, << 2, NoOutput >> }

\* ------------------------------------------------------- Execution Engine
\* What _run_ansible_playbook meets: the inventory file missing, the process
\* exiting with a return code, subprocess.run raising FileNotFoundError,
\* TimeoutExpired, or another OSError (PermissionError, ...).
RunnerOutcomes ==
    { [kind |-> "no_inventory"], [kind |-> "FileNotFoundError"],
      [kind |-> "TimeoutExpired"], [kind |-> "OSError"] }
    \cup { [kind |-> "exit", returncode |-> x[1], stdout |-> x[2]] : x \in Exits }

\* the exceptions of subprocess.run that _run_ansible_playbook handles
Caught == {"FileNotFoundError", "TimeoutExpired"}

\* cmd = ["ansible-playbook", "-i", str(INVENTORY_FILE), playbook] (+ --limit)
ansible_cmd(meta) ==
    << "ansible-playbook", "-i", "ansible/inventory.yml", meta.playbook >>
    \o (IF meta.limit # "" THEN << "--limit", meta.limit >> ELSE << >>)

\* mutant of proc_success: any return code that is not negative counts
proc_success_not_negative(returncode) == returncode >= 0

\* "success": proc.returncode == 0
proc_success(returncode) == returncode = 0

\* mutant of run_ansible_playbook: a timeout reported with a return code
run_ansible_playbook_timeout_code(meta, o) ==
    CASE o.kind = "no_inventory" ->
           [success |-> FALSE, error |-> "Inventory not found at ansible/inventory.yml"]
      [] o.kind = "exit" ->
           [success |-> proc_success(o.returncode), returncode |-> o.returncode,
            stdout |-> o.stdout, stderr |-> "", cmd |-> ansible_cmd(meta),
            play_summary |-> parse_play_recap(o.stdout)]
      [] o.kind = "FileNotFoundError" ->
           [success |-> FALSE, error |-> "ansible-playbook binary not found in PATH."]
      [] o.kind = "TimeoutExpired" ->
           [success |-> FALSE, returncode |-> 124, error |-> "Ansible command timed out"]

\* The dict _run_ansible_playbook returns (o.kind is not "OSError": that
\* exception is not caught and leaves the function).  stderr is opaque
\* captured text.
run_ansible_playbook(meta, o) ==
    CASE o.kind = "no_inventory" ->
           [success |-> FALSE, error |-> "Inventory not found at ansible/inventory.yml"]
      [] o.kind = "exit" ->
           [success |-> proc_success(o.returncode), returncode |-> o.returncode,
            stdout |-> o.stdout, stderr |-> "", cmd |-> ansible_cmd(meta),
            play_summary |-> parse_play_recap(o.stdout)]
      [] o.kind = "FileNotFoundError" ->
           [success |-> FALSE, error |-> "ansible-playbook binary not found in PATH."]
      [] o.kind = "TimeoutExpired" ->
           [success |-> FALSE, error |-> "Ansible command timed out"]

\* subprocess.run raised something the except clauses do not name
Escapes(o) == o.kind \notin Caught \cup {"no_inventory", "exit"}

\* mutant of status_of: the truth value of the (non-empty) dict itself
status_of_dict_truthiness(result) == "success"

\* "success" if success else "failed"
status_of(result) == IF result.success THEN "success" ELSE "failed"

\* run_record = {"id":..., "action":..., "status":..., "scheduled":..., **result}
\* (the keys of result override equal keys before them; @@ prefers its left side)
run_record(run_id, action, scheduled, result) ==
    result @@ [id |-> run_id, action |-> action, status |-> status_of(result),
               scheduled |-> scheduled]

\* mutant of labels_inc: the labelled child incremented by two
labels_inc_twice(counter, label) == [counter EXCEPT ![label] = @ + 2]

\* ACTION_RUNS_TOTAL.labels(action=..., status=...).inc()
labels_inc(counter, label) == [counter EXCEPT ![label] = @ + 1]

\* mutant of appendleft: RUNS.append(rec), the record put at the other end
appendleft_append(dq, rec) ==
    IF Len(dq) >= MAXLEN THEN Tail(dq) \o << rec >> ELSE dq \o << rec >>

\* mutant of appendleft: a deque without maxlen
appendleft_unbounded(dq, rec) == << rec >> \o dq

\* RUNS.appendleft(rec) on deque(maxlen=MAXLEN): when full, the element at the
\* other end is discarded
appendleft(dq, rec) ==
    IF Len(dq) >= MAXLEN THEN << rec >> \o SubSeq(dq, 1, MAXLEN - 1) ELSE << rec >> \o dq

\* ------------------------------------------------------------- scheduler
JobIds == { job_id(a) : a \in ActionIds }

\* mutant of IntervalJob: the job calls execute_action(action, False)
IntervalJob_unflagged(action, minutes) ==
    [id |-> job_id(action), minutes |-> minutes, args |-> << action, FALSE >>,
     max_instances |-> MAX_INSTANCES]

\* the job that add_job(func=execute_action, trigger=IntervalTrigger(minutes),
\* id=f"{action}_interval", args=[action, True], max_instances=1) describes
IntervalJob(action, minutes) ==
    [id |-> job_id(action), minutes |-> minutes, args |-> << action, TRUE >>,
     max_instances |-> MAX_INSTANCES]

\* mutant of DefaultJob: the heartbeat installed with another period
DefaultJob_hourly == IntervalJob("zos_ping", 60)

\* the job start_scheduler installs: zos_ping every 10 minutes
DefaultJob == IntervalJob("zos_ping", DEFAULT_MINUTES)

\* mutant of add_job: the new job is added beside a job of the same id
add_job_keep_existing(table, job) == table \cup { job }

\* scheduler.add_job(..., replace_existing=True): a job with the same id is
\* replaced, any other job is kept
add_job(table, job) == { j \in table : j.id # job.id } \cup { job }

\* mutant of remove_job: scheduler.remove_all_jobs()
remove_job_all(table, id) == {}

\* scheduler.remove_job(job_id)
remove_job(table, id) == { j \in table : j.id # id }

\* mutants of CanSubmit: no guard at all; a guard that is off by one
CanSubmit_unguarded(job) == TRUE
CanSubmit_off_by_one(job) == instances[job.id] <= job.max_instances

\* mutant of CanSubmit: a guard that counts the runs of the action whatever
\* started them
CanSubmit_any_trigger(job) == \A e \in inflight : e.action # job.args[1]

\* mutant of list: the live deque itself is handed out, not a copy
list_alias(dq) == [live |-> TRUE, items |-> << >>]

\* list(RUNS): a new list holding the records the deque holds now.  A value
\* handed to a reader is either such a copy or (live) the deque itself, whose
\* content the reader sees change.
list(dq) == [live |-> FALSE, items |-> dq]

\* what a reader holding the value v finds in it
Seen(v) == IF v.live THEN RUNS ELSE v.items

\* the executor runs a due job only below its max_instances
CanSubmit(job) == instances[job.id] < job.max_instances

\* executions of `action` started by the scheduler and not yet returned
ScheduledInFlight(action) == { e \in inflight : e.scheduled /\ e.action = action }

\* the event loop is blocked while an on-demand execution waits for its process
LoopFree == \A e \in inflight : e.scheduled

Reply(op, action, result, body) ==
    [op |-> op, action |-> action, result |-> result, body |-> body]

Init ==
    /\ phase = "created"
    /\ RUNS = << >>
    /\ ACTION_RUNS_TOTAL = [l \in ActionIds \X Statuses |-> 0]
    /\ ACTION_RUN_DURATION = [a \in ActionIds |-> 0]
    /\ IN_PROGRESS_RUNS = 0
    /\ ZOS_UP = 0
    /\ jobs = {}
    /\ instances = [j \in JobIds |-> 0]
    /\ inflight = {}
    /\ nextId = 0
    /\ last = Reply("import", "", "", EmptyDict)
    /\ idleTicks = [a \in ActionIds |-> 0]
    /\ schedStarted = [a \in ActionIds |-> 0]
    /\ snapshot = list(<< >>)
    /\ appended = 0
    /\ firstId = 0
    /\ tickIds = {}
    /\ appendedBy = [a \in ActionIds |-> 0]

\* execute_action, lines 225-233: a run id, the gauge, then the wait for the
\* external process
execute_begin(action, scheduled) ==
    /\ nextId' = nextId + 1
    /\ IN_PROGRESS_RUNS' = IN_PROGRESS_RUNS + 1
    /\ inflight' = inflight \cup { [id |-> nextId + 1, action |-> action,
                                    scheduled |-> scheduled] }

\* execute_action, lines 235-262, with the dict the runner returned
execute_finish(e, result) ==
    LET st == status_of(result)
        rec == run_record(e.id, e.action, e.scheduled, result)
    IN  /\ ZOS_UP' = IF e.action = "zos_ping"
                       THEN (IF result.success THEN 1 ELSE 0) ELSE ZOS_UP
        /\ ACTION_RUN_DURATION' = [ACTION_RUN_DURATION EXCEPT ![e.action] = @ + 1]
        /\ ACTION_RUNS_TOTAL' = labels_inc(ACTION_RUNS_TOTAL, << e.action, st >>)
        /\ IN_PROGRESS_RUNS' = IN_PROGRESS_RUNS - 1
        /\ RUNS' = appendleft(RUNS, rec)
        /\ inflight' = inflight \ { e }
        /\ appended' = appended + 1
        /\ firstId' = IF appended = 0 THEN e.id ELSE firstId
        /\ appendedBy' = [appendedBy EXCEPT ![e.action] = @ + 1]

\* @app.on_event("startup")
start_scheduler ==
    /\ phase = "created"
    /\ phase' = "running"
    /\ jobs' = add_job(jobs, DefaultJob)
    /\ last' = Reply("start_scheduler", "", "started", EmptyDict)
    /\ UNCHANGED << RUNS, metrics, instances, inflight, nextId, history, snapshot >>

\* @app.on_event("shutdown"): scheduler.shutdown() waits for the running jobs
shutdown_scheduler ==
    /\ phase = "running"
    /\ inflight = {}
    /\ phase' = "shutdown"
    /\ last' = Reply("shutdown_scheduler", "", "stopped", EmptyDict)
    /\ UNCHANGED << RUNS, metrics, jobs, instances, inflight, nextId, history, snapshot >>

\* mutant of api_run_action: the gauge is incremented before the registry
\* lookup
api_run_action_inc_first(action) ==
    /\ phase = "running"
    /\ LoopFree
    /\ IN_PROGRESS_RUNS' = IN_PROGRESS_RUNS + 1
    /\ IF action \notin ActionIds
       THEN /\ last' = Reply("api_run_action", action, "HTTP 404 unknown action", EmptyDict)
            /\ UNCHANGED << inflight, nextId >>
       ELSE /\ nextId' = nextId + 1
            /\ inflight' = inflight \cup { [id |-> nextId + 1, action |-> action,
                                            scheduled |-> FALSE] }
            /\ last' = last
    /\ UNCHANGED << phase, RUNS, ACTION_RUNS_TOTAL, ACTION_RUN_DURATION, ZOS_UP, jobs,
                    instances, history, snapshot >>

\* POST /api/run/{action}, up to the wait for the external process
api_run_action(action) ==
    /\ phase = "running"
    /\ LoopFree
    /\ IF action \notin ActionIds
       THEN /\ last' = Reply("api_run_action", action, "HTTP 404 unknown action", EmptyDict)
            /\ UNCHANGED << RUNS, metrics, inflight, nextId >>
       ELSE /\ execute_begin(action, FALSE)
            /\ UNCHANGED << RUNS, ACTION_RUNS_TOTAL, ACTION_RUN_DURATION, ZOS_UP, last >>
    /\ UNCHANGED << phase, jobs, instances, history, snapshot >>

\* the scheduler's timer fires for a job of the job table
tick(job) ==
    /\ phase = "running"
    /\ job \in jobs
    /\ IF CanSubmit(job)
       THEN /\ instances' = [instances EXCEPT ![job.id] = @ + 1]
            /\ execute_begin(job.args[1], job.args[2])
            /\ schedStarted' = [schedStarted EXCEPT ![job.args[1]] = @ + 1]
            /\ tickIds' = tickIds \cup { nextId + 1 }
            /\ last' = Reply("tick", job.args[1], "submitted", EmptyDict)
       ELSE /\ last' = Reply("tick", job.args[1], "max_instances", EmptyDict)
            /\ UNCHANGED << instances, IN_PROGRESS_RUNS, inflight, nextId, schedStarted,
                            tickIds >>
    /\ idleTicks' = IF ScheduledInFlight(job.args[1]) = {}
                      THEN [idleTicks EXCEPT ![job.args[1]] = @ + 1] ELSE idleTicks
    /\ UNCHANGED << phase, RUNS, ACTION_RUNS_TOTAL, ACTION_RUN_DURATION, ZOS_UP, jobs,
                    snapshot, appended, firstId, appendedBy >>

\* the external process runner answers and execute_action returns its record:
\* to the HTTP caller, or to the scheduler's executor, which releases the job's
\* instance
execute_return(e, o) ==
    /\ e \in inflight
    /\ ~Escapes(o)
    /\ LET result == run_ansible_playbook(ACTIONS_DICT[e.action], o)
           rec == run_record(e.id, e.action, e.scheduled, result)
       IN  /\ execute_finish(e, result)
           /\ IF e.scheduled
              THEN /\ instances' = [instances EXCEPT ![job_id(e.action)] = @ - 1]
                   /\ last' = Reply("job", e.action, "executed", rec)
              ELSE /\ instances' = instances
                   /\ last' = Reply("api_run_action", e.action, "HTTP 200", rec)
    /\ UNCHANGED << phase, jobs, nextId, snapshot, idleTicks, schedStarted, tickIds >>

\* subprocess.run raises an exception that _run_ansible_playbook does not
\* catch: it leaves execute_action at line 230, to the HTTP caller or to the
\* scheduler's executor (which logs it and releases the job's instance)
execute_raise(e, o) ==
    /\ e \in inflight
    /\ Escapes(o)
    /\ inflight' = inflight \ { e }
    /\ IF e.scheduled
       THEN /\ instances' = [instances EXCEPT ![job_id(e.action)] = @ - 1]
            /\ last' = Reply("job", e.action, "error", [exception |-> o.kind])
       ELSE /\ instances' = instances
            /\ last' = Reply("api_run_action", e.action, "HTTP 500", [exception |-> o.kind])
    /\ UNCHANGED << phase, RUNS, metrics, jobs, nextId, history, snapshot >>

\* POST /api/schedule/{action}?minutes=N
set_schedule(action, minutes) ==
    /\ phase = "running"
    /\ LoopFree
    /\ IF action \notin ActionIds
       THEN /\ last' = Reply("set_schedule", action, "HTTP 404 unknown action", EmptyDict)
            /\ jobs' = jobs
       ELSE /\ jobs' = add_job(jobs, IntervalJob(action, minutes))
            /\ last' = Reply("set_schedule", action, "HTTP 200",
                             [status |-> "scheduled", action |-> action, minutes |-> minutes])
    /\ UNCHANGED << phase, RUNS, metrics, instances, inflight, nextId, history, snapshot >>

\* mutant of remove_schedule: the runs of the removed job are cancelled with it
remove_schedule_cancels(action) ==
    /\ phase = "running"
    /\ LoopFree
    /\ IF \E j \in jobs : j.id = job_id(action)
       THEN /\ jobs' = remove_job(jobs, job_id(action))
            /\ inflight' = inflight \ ScheduledInFlight(action)
            /\ instances' = [instances EXCEPT ![job_id(action)] = 0]
            /\ IN_PROGRESS_RUNS' = IN_PROGRESS_RUNS - Cardinality(ScheduledInFlight(action))
            /\ last' = Reply("remove_schedule", action, "HTTP 200",
                             [status |-> "removed", action |-> action])
       ELSE /\ jobs' = jobs
            /\ last' = Reply("remove_schedule", action, "JobLookupError", EmptyDict)
            /\ UNCHANGED << instances, inflight, IN_PROGRESS_RUNS >>
    /\ UNCHANGED << phase, RUNS, ACTION_RUNS_TOTAL, ACTION_RUN_DURATION, ZOS_UP, nextId,
                    history, snapshot >>

\* DELETE /api/schedule/{action}: remove_job raises JobLookupError when the
\* job table has no job of that id, and the handler does not catch it
remove_schedule(action) ==
    /\ phase = "running"
    /\ LoopFree
    /\ IF \E j \in jobs : j.id = job_id(action)
       THEN /\ jobs' = remove_job(jobs, job_id(action))
            /\ last' = Reply("remove_schedule", action, "HTTP 200",
                             [status |-> "removed", action |-> action])
       ELSE /\ jobs' = jobs
            /\ last' = Reply("remove_schedule", action, "JobLookupError", EmptyDict)
    /\ UNCHANGED << phase, RUNS, metrics, instances, inflight, nextId, history, snapshot >>

\* GET /api/runs
api_runs ==
    /\ phase = "running"
    /\ LoopFree
    /\ snapshot' = list(RUNS)
    /\ last' = Reply("api_runs", "", "HTTP 200", [runs |-> Seen(list(RUNS))])
    /\ UNCHANGED << phase, RUNS, metrics, jobs, instances, inflight, nextId, history >>

NextFor(ids, maxRuns) ==
    \/ start_scheduler
    \/ shutdown_scheduler
    \/ \E a \in ids : (a \in ActionIds => nextId < maxRuns) /\ api_run_action(a)
    \/ \E j \in jobs : (CanSubmit(j) => nextId < maxRuns) /\ tick(j)
    \/ \E e \in inflight, o \in RunnerOutcomes : execute_return(e, o)
    \/ \E e \in inflight, o \in RunnerOutcomes : execute_raise(e, o)
    \/ \E a \in ids, m \in Minutes : set_schedule(a, m)
    \/ \E a \in ids : remove_schedule(a)
    \/ api_runs

\* one registered action, up to MaxRuns executions
Next == NextFor(RequestIds, MaxRuns)
Spec == Init /\ [][Next]_vars

\* two registered actions, up to MaxRunsJobs executions
NextJobs == NextFor(ScheduleIds, MaxRunsJobs)
SpecJobs == Init /\ [][NextJobs]_vars

\* the ledger filled past its capacity: on-demand runs of one action, each
\* ending with exit code 0
LedgerExit == [kind |-> "exit", returncode |-> 0, stdout |-> RecapOutput]
NextLedger ==
    \/ start_scheduler
    \/ nextId < MaxRunsLedger /\ api_run_action("ec2_ping")
    \/ \E e \in inflight : execute_return(e, LedgerExit)
SpecLedger == Init /\ [][NextLedger]_vars

\* the ledger filled past its capacity by the runs of the default job, on the
\* scheduler's threads, while GET /api/runs is served on the event loop
NextList ==
    \/ start_scheduler
    \/ \E j \in jobs : (CanSubmit(j) => nextId < MaxRunsLedger) /\ tick(j)
    \/ \E e \in inflight : execute_return(e, LedgerExit)
    \/ api_runs
SpecList == Init /\ [][NextList]_vars

\* the job table under schedule requests carrying any integer
NextMinutes ==
    \/ start_scheduler
    \/ \E a \in ScheduleIds, m \in AnyMinutes : set_schedule(a, m)
    \/ \E a \in ScheduleIds : remove_schedule(a)
SpecMinutes == Init /\ [][NextMinutes]_vars

\* the Output Parser applied to the output of one run of a playbook
NextParser ==
    \/ start_scheduler
    \/ nextId = 0 /\ api_run_action("ec2_ping")
    \/ \E e \in inflight, t \in RecapTexts :
          execute_return(e, [kind |-> "exit", returncode |-> 0, stdout |-> t])
SpecParser == Init /\ [][NextParser]_vars

\* ------------------------------------------------------------------ claims
Range(f) == { f[i] : i \in DOMAIN f }
HasJob(action) == \E j \in jobs : j.id = job_id(action)
NotFound404 == "HTTP 404 unknown action"

\* C1: for every scheduled job id, at most one execution started by that
\* job's ticks is in flight, in every reachable state, whatever the
\* interleaving of ticks, schedule replacements and unschedule calls.
C1_NoOverlap == \A a \in ActionIds : Cardinality(ScheduledInFlight(a)) <= 1

\* a tick was skipped while a scheduled run of zos_ping is in flight and the
\* default schedule has been replaced by a 5-minute one
C1_Witness ==
    /\ ScheduledInFlight("zos_ping") # {}
    /\ last = Reply("tick", "zos_ping", "max_instances", EmptyDict)
    /\ IntervalJob("zos_ping", 5) \in jobs

\* C2: a tick that fires while the previous invocation of the same job has
\* not completed starts no execution, then or later: while a scheduled run of
\* an action is in flight no step starts another one, and the runs a job has
\* started never outnumber its ticks that found it idle.
C2_SkippedTickDropped ==
    /\ [](\A a \in ActionIds : schedStarted[a] <= idleTicks[a])
    /\ [][\A a \in ActionIds :
            ScheduledInFlight(a) # {} =>
                /\ schedStarted'[a] = schedStarted[a]
                /\ ScheduledInFlight(a)' \subseteq ScheduledInFlight(a)]_vars

\* the job's second run is in flight and a tick of it has just been skipped
C2_Witness ==
    /\ last.op = "tick" /\ last.result = "max_instances"
    /\ schedStarted["zos_ping"] = 2
    /\ idleTicks["zos_ping"] = 2
    /\ Len(RUNS) = 1

\* C3: the ledger never holds more than 50 records; an insertion into a full
\* ledger drops exactly the oldest record and keeps the others in order; once
\* 51 records have been inserted the first one is not in the ledger.
C3_LedgerBounded ==
    /\ [](Len(RUNS) <= MAXLEN)
    /\ [][(Len(RUNS) = MAXLEN /\ RUNS' # RUNS) =>
            /\ Len(RUNS') = MAXLEN
            /\ SubSeq(RUNS', 2, MAXLEN) = SubSeq(RUNS, 1, MAXLEN - 1)
            /\ RUNS'[1] \notin Range(RUNS)]_vars
    /\ [](appended >= MAXLEN + 1 => \A i \in 1..Len(RUNS) : RUNS[i].id # firstId)

\* the 51st record has just been inserted
C3_Witness == appended = MAXLEN + 1 /\ Len(RUNS) = MAXLEN /\ RUNS[1].id = MAXLEN + 1

\* C4: for an action id that is not in the registry, POST /api/run and
\* POST /api/schedule answer 404 and leave the ledger, the in-progress gauge,
\* the action counter and histogram and the job table as they were.
C4_UnknownActionNoEffect ==
    [][\A a \in RequestIds \ ActionIds :
         (api_run_action(a) \/ \E m \in Minutes : set_schedule(a, m)) =>
             /\ last'.result = NotFound404
             /\ UNCHANGED << RUNS, IN_PROGRESS_RUNS, ACTION_RUNS_TOTAL,
                             ACTION_RUN_DURATION, jobs >>]_vars

\* an unknown action has just been refused while the ledger and the job table
\* hold entries
C4_Witness ==
    /\ last = Reply("api_run_action", "no_such_action", NotFound404, EmptyDict)
    /\ RUNS # << >>
    /\ jobs # {}

\* C5 (as claimed): whenever an execution of a registered action ends, the
\* caller gets a run record whose status is success or failed, never an
\* exception, whatever the external process runner did.
C5_AlwaysARecord ==
    (last.op \in {"api_run_action", "job"} /\ last.action \in ActionIds) =>
        /\ last.result \in {"HTTP 200", "executed"}
        /\ last.body.status \in Statuses

\* C6 (as claimed): the in-progress gauge equals the number of executions in
\* flight, so it is 0 when none is, and it is never negative.
C6_GaugeMatchesInFlight ==
    /\ IN_PROGRESS_RUNS = Cardinality(inflight)
    /\ IN_PROGRESS_RUNS >= 0

\* C7: the job table never holds two entries for one action id;
\* schedule(A, m) leaves exactly one entry for A, with interval m, whether or
\* not A had one before, and leaves the entries of the other actions alone.
C7_OneSchedulePerAction ==
    /\ [](\A j1, j2 \in jobs : j1.id = j2.id => j1 = j2)
    /\ [][\A a \in ScheduleIds \cap ActionIds : \A m \in Minutes :
            set_schedule(a, m) =>
                /\ Cardinality({ j \in jobs' : j.id = job_id(a) }) = 1
                /\ \A j \in jobs' : j.id = job_id(a) => j.minutes = m
                /\ { j \in jobs' : j.id # job_id(a) } = { j \in jobs : j.id # job_id(a) }]_vars

\* the default 10-minute schedule of zos_ping has just been replaced by a
\* 5-minute one while ec2_ping has a schedule too
C7_Witness ==
    /\ last.op = "set_schedule" /\ last.action = "zos_ping" /\ last.result = "HTTP 200"
    /\ last.body.minutes = 5
    /\ HasJob("ec2_ping")
    /\ Cardinality(jobs) = 2

\* C8: unschedule(A) without an active schedule for A raises the scheduler's
\* job-lookup (not found) error and leaves the job table and the ledger as
\* they were; with an active schedule it removes that entry, no other, and
\* answers "removed".
C8_Unschedule ==
    [][\A a \in ScheduleIds :
         remove_schedule(a) =>
             IF HasJob(a)
             THEN /\ jobs' = { j \in jobs : j.id # job_id(a) }
                  /\ Cardinality(jobs') = Cardinality(jobs) - 1
                  /\ last'.result = "HTTP 200" /\ last'.body.status = "removed"
                  /\ RUNS' = RUNS
             ELSE /\ last'.result = "JobLookupError"
                  /\ UNCHANGED << jobs, RUNS, metrics, inflight >>]_vars

\* zos_ping, whose schedule was removed before, is unscheduled again while
\* the ledger holds a record and ec2_ping has a schedule
C8_Witness ==
    /\ last = Reply("remove_schedule", "zos_ping", "JobLookupError", EmptyDict)
    /\ RUNS # << >>
    /\ HasJob("ec2_ping")

\* C9: when the executable cannot be launched (FileNotFoundError), the run is
\* returned and put at the head of the ledger as a record with status failed,
\* an error, no return code and no play summary; the action's failed counter
\* grows by one and its success counter stays.
C9_LaunchFailureRecorded ==
    [][\A e \in inflight :
         execute_return(e, [kind |-> "FileNotFoundError"]) =>
             /\ RUNS' # << >>
             /\ RUNS'[1].id = e.id
             /\ last'.body = RUNS'[1]
             /\ RUNS'[1].status = "failed"
             /\ "error" \in DOMAIN RUNS'[1]
             /\ "returncode" \notin DOMAIN RUNS'[1]
             /\ "play_summary" \notin DOMAIN RUNS'[1]
             /\ ACTION_RUNS_TOTAL'[<< e.action, "failed" >>]
                    = ACTION_RUNS_TOTAL[<< e.action, "failed" >>] + 1
             /\ ACTION_RUNS_TOTAL'[<< e.action, "success" >>]
                    = ACTION_RUNS_TOTAL[<< e.action, "success" >>]]_vars

\* an on-demand run has just returned the record of a launch failure
C9_Witness ==
    /\ last.op = "api_run_action" /\ last.result = "HTTP 200"
    /\ "error" \in DOMAIN last.body
    /\ last.body.error = "ansible-playbook binary not found in PATH."
    /\ ACTION_RUNS_TOTAL[<< "zos_ping", "failed" >>] = 1

\* what a timed-out run must look like, but for the text of its error
TimeoutRecorded(e, text) ==
    execute_return(e, [kind |-> "TimeoutExpired"]) =>
        /\ RUNS' # << >>
        /\ RUNS'[1].id = e.id
        /\ last'.body = RUNS'[1]
        /\ RUNS'[1].status = "failed"
        /\ "error" \in DOMAIN RUNS'[1]
        /\ RUNS'[1].error = text
        /\ "returncode" \notin DOMAIN RUNS'[1]
        /\ ACTION_RUNS_TOTAL'[<< e.action, "failed" >>]
               = ACTION_RUNS_TOTAL[<< e.action, "failed" >>] + 1

\* C10 (as claimed): a run whose process exceeds the timeout gives a record
\* with status failed, error "timed out" and no return code, counted as failed.
C10_TimedOutLiteral == [][\A e \in inflight : TimeoutRecorded(e, "timed out")]_vars

\* C10 (amended): ... the error is the text "Ansible command timed out".
C10_TimeoutRecorded ==
    [][\A e \in inflight : TimeoutRecorded(e, "Ansible command timed out")]_vars

\* a scheduled run has just ended by timeout
C10_Witness ==
    /\ last.op = "job" /\ last.result = "executed"
    /\ "error" \in DOMAIN last.body
    /\ last.body.error = "Ansible command timed out"
    /\ last.body.status = "failed"

\* the outcome "the process exited with code x[1] and wrote x[2]"
ExitOutcome(x) == [kind |-> "exit", returncode |-> x[1], stdout |-> x[2]]

\* C11: a record has status success exactly when it carries the return code 0
\* of its process; a process that exits with a non-zero code gives a failed
\* record that carries that code.
C11_SuccessIffExitZero ==
    /\ [](\A i \in 1..Len(RUNS) :
            RUNS[i].status = "success" <=>
                ("returncode" \in DOMAIN RUNS[i] /\ RUNS[i].returncode = 0))
    /\ [][\A e \in inflight : \A x \in Exits :
            execute_return(e, ExitOutcome(x)) =>
                /\ RUNS'[1].id = e.id
                /\ RUNS'[1].returncode = x[1]
                /\ RUNS'[1].status = IF x[1] = 0 THEN "success" ELSE "failed"]_vars

\* the ledger holds a failed record with return code 2 above a successful one
C11_Witness ==
    /\ Len(RUNS) = 2
    /\ RUNS[1].status = "failed" /\ "returncode" \in DOMAIN RUNS[1] /\ RUNS[1].returncode = 2
    /\ RUNS[2].status = "success" /\ RUNS[2].returncode = 0

\* C12: what a reader finds in the list GET /api/runs returned does not change
\* afterwards: no step other than a new GET /api/runs adds a record to it or
\* takes one from it, whatever is appended to or evicted from the ledger.
C12_SnapshotStable == [][api_runs \/ Seen(snapshot)' = Seen(snapshot)]_vars

\* a list taken of the full ledger; since then a run has been appended and the
\* oldest record of the list evicted
C12_Witness ==
    /\ Len(Seen(snapshot)) = MAXLEN
    /\ Len(RUNS) = MAXLEN
    /\ Seen(snapshot)[MAXLEN] \notin Range(RUNS)
    /\ RUNS[1] \notin Range(Seen(snapshot))

\* C13: no schedule exists before startup and startup itself installs the
\* heartbeat (zos_ping every 10 minutes, one instance at a time) as the only
\* job; a later schedule of zos_ping with n minutes leaves exactly one job for
\* zos_ping, the one with period n, and leaves the other jobs alone.
Heartbeat(minutes) ==
    [id |-> << "zos_ping", "_interval" >>, minutes |-> minutes, args |-> << "zos_ping", TRUE >>,
     max_instances |-> 1]
C13_DefaultHeartbeat ==
    /\ [](phase = "created" => jobs = {})
    /\ [][start_scheduler => jobs' = { Heartbeat(10) }]_vars
    /\ [][\A m \in Minutes : set_schedule("zos_ping", m) =>
            /\ { j \in jobs' : j.args[1] = "zos_ping" } = { Heartbeat(m) }
            /\ { j \in jobs' : j.args[1] # "zos_ping" }
                  = { j \in jobs : j.args[1] # "zos_ping" }]_vars

\* the heartbeat has been rescheduled to 5 minutes beside a job of ec2_ping
C13_Witness ==
    /\ last.op = "set_schedule" /\ last.action = "zos_ping" /\ last.result = "HTTP 200"
    /\ Heartbeat(5) \in jobs
    /\ Cardinality(jobs) = 2

\* C14: a record of the ledger, and the record handed back for it, is marked
\* scheduled exactly when its execution was started by a tick of the scheduler
\* and not scheduled exactly when it was started by POST /api/run/{action};
\* either kind of run prepends its record to the one ledger and adds one to
\* the status counter and to the duration histogram of its action.
C14_ScheduledFlag ==
    /\ [](\A i \in 1..Len(RUNS) :
            /\ RUNS[i].scheduled \in BOOLEAN
            /\ RUNS[i].scheduled <=> RUNS[i].id \in tickIds)
    /\ [](\A e \in inflight : e.scheduled <=> e.id \in tickIds)
    /\ [][\A a \in RequestIds : api_run_action(a) => tickIds' = tickIds]_vars
    /\ [][\A e \in inflight : \A o \in RunnerOutcomes :
            execute_return(e, o) =>
                /\ RUNS'[1].id = e.id
                /\ RUNS'[1].scheduled = (e.id \in tickIds)
                /\ last'.body = RUNS'[1]
                /\ ACTION_RUNS_TOTAL' =
                      [ACTION_RUNS_TOTAL EXCEPT ![<< e.action, RUNS'[1].status >>] = @ + 1]
                /\ ACTION_RUN_DURATION' =
                      [ACTION_RUN_DURATION EXCEPT ![e.action] = @ + 1]]_vars

\* the ledger holds a run the scheduler started and a run a request started
C14_Witness ==
    /\ Len(RUNS) = 2
    /\ RUNS[1].scheduled /\ RUNS[1].id \in tickIds
    /\ ~RUNS[2].scheduled /\ RUNS[2].id \notin tickIds
    /\ ACTION_RUNS_TOTAL[<< "zos_ping", "success" >>] = 2

\* C15: the ledger changes only when an execution returns; the record of that
\* execution is then the first of the ledger and the records that were in it
\* follow in the order they had (the last one dropped when the ledger was
\* full).  So of two overlapping executions the one that returns later stands
\* before the other, whichever was called first.  GET /api/runs returns the
\* records in the ledger's order.
C15_MostRecentFirst ==
    /\ [][RUNS' # RUNS =>
            \E e \in inflight :
                /\ e \notin inflight'
                /\ RUNS'[1].id = e.id
                /\ Tail(RUNS') = SubSeq(RUNS, 1, Len(RUNS') - 1)
                /\ Len(RUNS') = IF Len(RUNS) < MAXLEN THEN Len(RUNS) + 1 ELSE MAXLEN]_vars
    /\ [][\A e \in inflight : \A o \in RunnerOutcomes :
            execute_return(e, o) => RUNS' # RUNS /\ RUNS'[1].id = e.id]_vars
    /\ [][api_runs => last'.body.runs = RUNS /\ Seen(snapshot') = RUNS]_vars

\* run 1 was called before run 2 and returned after it: GET /api/runs lists
\* run 1 first
C15_Witness ==
    /\ last.op = "api_runs"
    /\ Len(last.body.runs) = 2
    /\ last.body.runs[1].id = 1
    /\ last.body.runs[2].id = 2

\* C16: only a scheduled run of the same job makes a tick skip.  A tick of the
\* job of A while no scheduled run of A is in flight starts a run, whatever
\* on-demand runs are in flight; POST /api/run/A is accepted whenever the
\* event loop serves requests, whatever scheduled runs are in flight, and
\* always starts a run.  A run that returns while another run of its action
\* is in flight prepends its own record, adds one to the counter of its own
\* status and leaves the other run in flight.
C16_GuardOnlyBetweenTicks ==
    /\ [][\A j \in jobs :
            (tick(j) /\ ScheduledInFlight(j.args[1]) = {}) =>
                /\ last'.result = "submitted"
                /\ \E e \in inflight' \ inflight : e.scheduled /\ e.action = j.args[1]]_vars
    /\ [](\A a \in ActionIds :
            (phase = "running" /\ LoopFree) => ENABLED api_run_action(a))
    /\ [][\A a \in ActionIds :
            api_run_action(a) =>
                \E e \in inflight' \ inflight : ~e.scheduled /\ e.action = a]_vars
    /\ [][\A e \in inflight : \A o \in RunnerOutcomes :
            execute_return(e, o) =>
                /\ inflight' = inflight \ { e }
                /\ RUNS'[1].id = e.id
                /\ ACTION_RUNS_TOTAL' =
                      [ACTION_RUNS_TOTAL EXCEPT ![<< e.action, RUNS'[1].status >>] = @ + 1]]_vars

\* a scheduled and an on-demand run of the same action in flight together
C16_Witness ==
    \E e1 \in inflight, e2 \in inflight :
        e1.action = e2.action /\ e1.scheduled /\ ~e2.scheduled

\* C17: every job of the job table has a positive number of minutes as its
\* interval, whatever integers the schedule requests carried.
C17_PositiveInterval == \A j \in jobs : j.minutes \in Nat /\ j.minutes > 0

\* C18: the mapping the parser returns is the one the lines of the form
\* `name: k=v ...` alone give: a line of the recap block without a colon, or
\* with a colon and no key=integer pair after it, adds no entry and changes
\* no entry of a line that has the form.
HasForm(line) ==
    LET c == IndexOf(line, ":", 1)
    IN  c > 0 /\ FindStats(Drop(line, c), 1, EmptyDict) # EmptyDict
BlockLines(output) ==
    LET p == HeaderEnd(output, 1)
    IN  IF p = 0 THEN << >>
        ELSE SplitLines(Strip(SubSeq(output, p, BlockEnd(output, p))))
C18_MalformedLinesSkipped ==
    \A i \in 1..Len(RUNS) :
        "stdout" \in DOMAIN RUNS[i] =>
            RUNS[i].play_summary
                = RecapLines(SelectSeq(BlockLines(RUNS[i].stdout), HasForm), EmptyDict)

\* C19: while no execution of an action is in flight, its success and failed
\* counters add up to the number of records appended to the ledger for it,
\* one for each of its executions that returned (and, until the ledger evicts,
\* each counter equals the number of the action's records of that status in
\* the ledger).  An execution that returns adds one to the single counter
\* labelled with the status of its record and appends one record; no other
\* step changes a counter or appends.
RecordsOf(a, st) ==
    Cardinality({ i \in 1..Len(RUNS) : RUNS[i].action = a /\ RUNS[i].status = st })
C19_CountersMatchLedger ==
    /\ [](\A a \in ActionIds :
            (\A e \in inflight : e.action # a) =>
                /\ ACTION_RUNS_TOTAL[<< a, "success" >>] + ACTION_RUNS_TOTAL[<< a, "failed" >>]
                      = appendedBy[a]
                /\ appended <= MAXLEN =>
                      \A st \in Statuses : ACTION_RUNS_TOTAL[<< a, st >>] = RecordsOf(a, st))
    /\ [][\A e \in inflight : \A o \in RunnerOutcomes :
            execute_return(e, o) =>
                /\ RUNS'[1].action = e.action
                /\ RUNS'[1].status \in Statuses
                /\ ACTION_RUNS_TOTAL' =
                      [ACTION_RUNS_TOTAL EXCEPT ![<< e.action, RUNS'[1].status >>] = @ + 1]
                /\ appendedBy' = [appendedBy EXCEPT ![e.action] = @ + 1]]_vars
    /\ [][(ACTION_RUNS_TOTAL' # ACTION_RUNS_TOTAL \/ appendedBy' # appendedBy) =>
            \E e \in inflight : \E o \in RunnerOutcomes : execute_return(e, o)]_vars

\* two executions of zos_ping have returned, one for each status, and none is
\* in flight
C19_Witness ==
    /\ inflight = {}
    /\ appendedBy["zos_ping"] = 2
    /\ ACTION_RUNS_TOTAL[<< "zos_ping", "success" >>] = 1
    /\ ACTION_RUNS_TOTAL[<< "zos_ping", "failed" >>] = 1
    /\ RecordsOf("zos_ping", "success") = 1
    /\ RecordsOf("zos_ping", "failed") = 1

\* C20: removing the schedule of an action touches only the job table: the
\* runs in flight, the instance counts, the gauge and the ledger stay as they
\* are.  When a scheduled run returns it prepends its record, marked
\* scheduled, whether or not its job still exists.
\* While an action has no job no scheduled run of it starts.
C20_UnscheduleKeepsRun ==
    /\ [][\A a \in RequestIds :
            remove_schedule(a) =>
                /\ inflight' = inflight
                /\ instances' = instances
                /\ IN_PROGRESS_RUNS' = IN_PROGRESS_RUNS
                /\ RUNS' = RUNS]_vars
    /\ [][\A e \in inflight : \A o \in RunnerOutcomes :
            (e.scheduled /\ execute_return(e, o)) =>
                /\ RUNS'[1].id = e.id
                /\ RUNS'[1].action = e.action
                /\ RUNS'[1].scheduled = TRUE
                /\ Len(RUNS') = IF Len(RUNS) < MAXLEN THEN Len(RUNS) + 1 ELSE MAXLEN]_vars
    /\ [][\A a \in ActionIds :
            ~HasJob(a) =>
                /\ schedStarted'[a] = schedStarted[a]
                /\ ScheduledInFlight(a)' \subseteq ScheduledInFlight(a)]_vars

\* the schedule of zos_ping was removed while its scheduled run was in flight;
\* the run has now returned and its record heads the ledger
C20_Witness ==
    /\ ~HasJob("zos_ping")
    /\ last.op = "job" /\ last.result = "executed" /\ last.action = "zos_ping"
    /\ RUNS # << >>
    /\ RUNS[1] = last.body
    /\ RUNS[1].scheduled
    /\ inflight = {}

====
